---- MODULE Spec2Model ----
(***************************************************************************)
(* Model of script.py: the JSON-resume to rendercv-YAML converter          *)
(* (JSONResumeConverter), the Gemini enhancer, the template merge with the *)
(* bullet normalisation, the rendercv subprocess step and the /upload      *)
(* request handler with its temporary files.                               *)
(*                                                                         *)
(* Python dicts are functions whose DOMAIN is the set of keys present.     *)
(* Python lists are sequences.  A YAML text is a record that keeps what    *)
(* matters of the characters: whether it has surrounding whitespace,       *)
(* whether it is well-formed, and the value it parses to.                  *)
(***************************************************************************)
EXTENDS Integers, Sequences, FiniteSets, TLC

VARIABLES
    json_resume,   \* converter run: the document given to JSONResumeConverter
    conv,          \* converter run: pending before the call, the outcome after
    clients,       \* the requests that are sent to the server
    traffic,       \* the HTTP requests the clients send
    pc,            \* per request: position in upload_json / generate_resume_pdf
    request,       \* per request: the HTTP request received
    file_path,     \* per request: path of the saved input JSON
    gemini,        \* per request: what model.generate_content did
    enhanced_cv_yaml, \* per request: result of enhance_resume_with_gemini
    handed,        \* per request: the merged document rendercv was started on
    proc,          \* per request: what became of the rendercv subprocess
    response,      \* per request: the HTTP response returned
    files,         \* the filesystem under temp/: path -> content
    base_yaml_file,\* content of resume.yaml (BASE_YAML_PATH)
    rendercv_installed \* whether the rendercv executable can be found

vars == <<json_resume, conv, clients, traffic, pc, request, file_path, gemini, enhanced_cv_yaml,
          handed, proc, response, files, base_yaml_file, rendercv_installed>>

convVars == <<json_resume, conv>>
pipeVars == <<clients, traffic, pc, request, file_path, gemini, enhanced_cv_yaml, handed, proc,
              response, files, base_yaml_file, rendercv_installed>>

(***************************************************************************)
(* Bounds                                                                  *)
(***************************************************************************)
MaxProfiles == 2    \* longest basics.profiles list tried
MaxItems == 2       \* longest section list tried
NumRequests == 2    \* concurrent upload requests
MaxUuid == 2        \* identifiers uuid4 can still hand out

(***************************************************************************)
(* Python helpers                                                          *)
(***************************************************************************)
EmptyDict == [k \in {} |-> k]

\* d.get(k, default)
Get(d, k, default) == IF k \in DOMAIN d THEN d[k] ELSE default

\* the dict d with key k set to v
Put(d, k, v) == (k :> v) @@ d

\* lower() left out: the name is looked up as written
LowerUnchanged(s) == s

\* str.lower() on a string kept as its ASCII codes
Lower(s) == [i \in 1..Len(s) |-> IF s[i] \in 65..90 THEN s[i] + 32 ELSE s[i]]

\* sep.join(strs)
RECURSIVE Join(_, _)
Join(sep, strs) ==
    IF Len(strs) = 0 THEN ""
    ELSE IF Len(strs) = 1 THEN strs[1]
    ELSE strs[1] \o sep \o Join(sep, Tail(strs))

\* [f(x) for x in s]
MapSeq(f(_), s) == [i \in 1..Len(s) |-> f(s[i])]

\* the sequences over S of length at most n
SeqsUpTo(S, n) == UNION {[1..k -> S] : k \in 0..n}

(***************************************************************************)
(* Network names as ASCII codes (so that lower() is computed)              *)
(***************************************************************************)
s_github   == <<103, 105, 116, 104, 117, 98>>
s_GitHub   == <<71, 105, 116, 72, 117, 98>>
s_linkedin == <<108, 105, 110, 107, 101, 100, 105, 110>>
s_LinkedIn == <<76, 105, 110, 107, 101, 100, 73, 110>>
s_LINKEDIN == <<76, 73, 78, 75, 69, 68, 73, 78>>
s_twitter  == <<116, 119, 105, 116, 116, 101, 114>>
s_default  == <<100, 101, 102, 97, 117, 108, 116>>
s_empty    == <<>>

\* the `networks` table of _format_social_networks
networks == [k \in {s_github, s_linkedin, s_default} |->
                IF k = s_linkedin THEN "LinkedIn" ELSE "GitHub"]

(***************************************************************************)
(* YAML texts                                                              *)
(***************************************************************************)
\* yaml.dump(obj): a well-formed text that ends with a newline
yaml_dump(map) == [ws |-> TRUE, wellformed |-> TRUE,
                   value |-> [type |-> "mapping", map |-> map]]

\* str.strip()
Strip(text) == [text EXCEPT !.ws = FALSE]

\* yaml.safe_load(text) raises yaml.YAMLError
LoadRaises(text) == ~ text.wellformed

\* yaml.safe_load(text) of a well-formed text
safe_load(text) == text.value

(***************************************************************************)
(* JSONResumeConverter                                                     *)
(***************************************************************************)
_format_location(location) ==
    IF location = EmptyDict THEN ""
    ELSE location["city"] \o ", " \o location["countryCode"]

\* location['city'] or location['countryCode'] finds no such key
LocationRaises(location) ==
    /\ location # EmptyDict
    /\ ~ ({"city", "countryCode"} \subseteq DOMAIN location)

social_network(profile) ==
    [network  |-> Get(networks, Lower(Get(profile, "network", s_empty)),
                      networks[s_default]),
     username |-> Get(profile, "username", "")]

_format_social_networks(profiles) == MapSeq(social_network, profiles)

education_entry(edu) ==
    [institution |-> edu["institution"],
     area        |-> edu["area"],
     degree      |-> edu["studyType"],
     start_date  |-> edu["startDate"],
     end_date    |-> Get(edu, "endDate", "present"),
     highlights  |-> Get(edu, "courses", <<>>)]

experience_entry(job) ==
    [company    |-> job["name"],
     position   |-> job["position"],
     location   |-> Get(job, "location", ""),
     start_date |-> job["startDate"],
     end_date   |-> Get(job, "endDate", "present"),
     highlights |-> Get(job, "highlights", <<>>)]

publication_entry(pub) ==
    [title   |-> pub["name"],
     authors |-> Get(pub, "authors", <<>>),
     date    |-> pub["releaseDate"],
     doi     |-> Get(pub, "doi", "null"),
     url     |-> Get(pub, "url", "null")]

project_entry(proj) ==
    [name       |-> proj["name"],
     date       |-> Get(proj, "startDate", ""),
     highlights |-> <<Get(proj, "description", "")>>]

technology_entry(skill) ==
    [label   |-> skill["name"],
     details |-> Join(", ", skill["keywords"])]

award_entry(award) ==
    [label   |-> award["title"],
     details |-> award["awarder"]]

\* keys read with d[k]: a missing one raises KeyError
RequiredKeys(section) ==
    CASE section = "education"    -> {"institution", "area", "studyType", "startDate"}
      [] section = "work"         -> {"name", "position", "startDate"}
      [] section = "publications" -> {"name", "releaseDate"}
      [] section = "projects"     -> {"name"}
      [] section = "skills"       -> {"name", "keywords"}
      [] section = "awards"       -> {"title", "awarder"}

\* the input key each output section is built from, in the order of the code
InputSections == <<"education", "work", "publications", "projects", "skills", "awards">>

SectionKey(section) ==
    CASE section = "education"    -> "education"
      [] section = "work"         -> "experience"
      [] section = "publications" -> "publications"
      [] section = "projects"     -> "projects"
      [] section = "skills"       -> "technologies"
      [] section = "awards"       -> "awards"

SectionEntries(section, items) ==
    CASE section = "education"    -> MapSeq(education_entry, items)
      [] section = "work"         -> MapSeq(experience_entry, items)
      [] section = "publications" -> MapSeq(publication_entry, items)
      [] section = "projects"     -> MapSeq(project_entry, items)
      [] section = "skills"       -> MapSeq(technology_entry, items)
      [] section = "awards"       -> MapSeq(award_entry, items)

\* `if section in json_resume:` - an empty list counts as given
SectionPresent(doc, section) == section \in DOMAIN doc

\* `if json_resume.get(section):` - the key is there and its list is not empty
SectionGiven(doc, section) == Get(doc, section, <<>>) # <<>>

\* `if json_resume["basics"].get("summary"):`
SummaryGiven(doc) == Get(doc["basics"], "summary", "") # ""

\* a d[k] of the list comprehension of `section` finds no key k
SectionRaises(doc, section) ==
    /\ SectionGiven(doc, section)
    /\ \E i \in 1..Len(doc[section]) :
          ~ (RequiredKeys(section) \subseteq DOMAIN doc[section][i])

RECURSIVE AddSections(_, _, _)
AddSections(doc, sections, n) ==
    IF n > Len(InputSections) THEN sections
    ELSE LET section == InputSections[n]
             next == IF SectionGiven(doc, section)
                     THEN Put(sections, SectionKey(section),
                              SectionEntries(section, doc[section]))
                     ELSE sections
         IN  AddSections(doc, next, n + 1)

_build_sections(doc) ==
    AddSections(doc,
                IF SummaryGiven(doc)
                THEN Put(EmptyDict, "summary", <<doc["basics"]["summary"]>>)
                ELSE EmptyDict,
                1)

\* JSONResumeConverter(json_resume).render_cv, or the KeyError it raises
JSONResumeConverter(doc) ==
    IF \/ "basics" \notin DOMAIN doc
       \/ ~ ({"name", "email", "phone"} \subseteq DOMAIN doc["basics"])
       \/ LocationRaises(Get(doc["basics"], "location", EmptyDict))
       \/ \E n \in 1..Len(InputSections) : SectionRaises(doc, InputSections[n])
    THEN [exc |-> "KeyError"]
    ELSE LET basics == doc["basics"] IN
         [exc |-> "none",
          render_cv |->
            [cv |-> [name     |-> basics["name"],
                     location |-> _format_location(Get(basics, "location", EmptyDict)),
                     email    |-> basics["email"],
                     phone    |-> basics["phone"],
                     website  |-> Get(basics, "url", ""),
                     social_networks |->
                         _format_social_networks(Get(basics, "profiles", <<>>)),
                     sections |-> _build_sections(doc)]]]

\* JSONResumeConverter.convert: yaml.dump(render_cv, sort_keys=False)
convert(render_cv) == yaml_dump(render_cv)


(***************************************************************************)
(* enhance_resume_with_gemini                                              *)
(***************************************************************************)
\* the enhancer without the yaml.safe_load check of the returned text
enhance_without_validation(yaml_content, generated) ==
    IF generated.outcome = "raised"
    THEN [exc |-> "none", text |-> yaml_content]
    ELSE [exc |-> "none", text |-> Strip(generated.text)]

enhance_resume_with_gemini(yaml_content, generated) ==
    IF generated.outcome = "raised"
    THEN [exc |-> "none", text |-> yaml_content]
    ELSE LET enhanced_yaml == Strip(generated.text) IN
         IF LoadRaises(enhanced_yaml)
         THEN [exc |-> "none", text |-> yaml_content]
         ELSE [exc |-> "none", text |-> enhanced_yaml]

(***************************************************************************)
(* Template merge and bullet normalisation                                 *)
(***************************************************************************)
NEW_BULLET == "U+2022"

\* new_cv_data['cv'] raises: TypeError on a scalar, KeyError without the key
CvRaises(new_cv_data) ==
    IF new_cv_data.type # "mapping" THEN "TypeError"
    ELSE IF "cv" \notin DOMAIN new_cv_data.map THEN "KeyError"
    ELSE "none"

\* base_yaml = new_cv_data: the template's own fields are lost
merge_dropping_template(base_yaml, new_cv_data) == new_cv_data.map

\* base_yaml['cv'] = new_cv_data['cv']
merge(base_yaml, new_cv_data) == Put(base_yaml, "cv", new_cv_data.map["cv"])

\* the test of replace_bullet_in_yaml for the path design.highlights
HasHighlights(data) ==
    "design" \in DOMAIN data /\ "highlights" \in DOMAIN data["design"]

\* data['design']['highlights']['bullet'] = new_bullet
set_bullet(data, new_bullet) ==
    Put(data, "design",
        Put(data["design"], "highlights",
            Put(data["design"]["highlights"], "bullet", new_bullet)))

\* replace_bullet_in_yaml: what the file holds afterwards
replace_bullet_in_yaml(text, new_bullet) ==
    IF LoadRaises(text) \/ text.value.type # "mapping" THEN text
    ELSE IF HasHighlights(text.value.map)
         THEN yaml_dump(set_bullet(text.value.map, new_bullet))
         ELSE text

(***************************************************************************)
(* Paths                                                                   *)
(***************************************************************************)
Requests == 1..NumRequests
Uuids == 1..MaxUuid

NoPath == [folder |-> "none", stem |-> <<>>, ext |-> ""]

\* a fixed file name instead of one made from the uuid
input_path_fixed(u) == [folder |-> "input", stem |-> <<0, "_resume">>, ext |-> ".json"]

\* f"{uuid.uuid4()}_resume.json" in INPUT_FOLDER
input_path(u) == [folder |-> "input", stem |-> <<u, "_resume">>, ext |-> ".json"]

\* os.path.splitext(os.path.basename(json_file_path))[0]
input_filename(json_file_path) == json_file_path.stem

pdf_path(json_file_path) ==
    [folder |-> "output",
     stem |-> Append(input_filename(json_file_path), "_resume"),
     ext |-> ".pdf"]

yaml_path(json_file_path) ==
    [folder |-> "output",
     stem |-> Append(input_filename(json_file_path), "_resume"),
     ext |-> ".yaml"]

\* uuid4() returns an identifier no earlier call returned
uuid4 == Uuids \ {file_path[r].stem[1] : r \in {q \in Requests : file_path[q] # NoPath}}

\* open(path, 'w') and write
Write(fs, path, content) ==
    [p \in DOMAIN fs \cup {path} |-> IF p = path THEN content ELSE fs[p]]

(***************************************************************************)
(* Inputs of the pipeline                                                  *)
(***************************************************************************)
FullBasics == [name |-> "Jane Roe", email |-> "jane@example.org",
               phone |-> "+1 555 0100"]

MinimalResume == [basics |-> FullBasics]

WorkResume ==
    [basics |-> [name |-> "Jane Roe", email |-> "jane@example.org",
                 phone |-> "+1 555 0100", summary |-> "Engineer",
                 profiles |-> <<[network |-> s_LinkedIn, username |-> "jroe"]>>],
     work |-> <<[name |-> "Acme", position |-> "Engineer",
                 startDate |-> "2020-01"]>>]

Without(d, k) == [x \in DOMAIN d \ {k} |-> d[x]]

PipelineBodies ==
    { EmptyDict,
      [work |-> <<>>],
      [basics |-> EmptyDict],
      [basics |-> Without(FullBasics, "name")],
      [basics |-> Without(FullBasics, "email")],
      [basics |-> Without(FullBasics, "phone")],
      MinimalResume,
      WorkResume }

HttpRequests ==
    {[is_json |-> FALSE, json_data |-> EmptyDict]}
    \cup {[is_json |-> TRUE, json_data |-> d] : d \in PipelineBodies}

\* the rewording the service may return for a cv
Reworded(cv) ==
    [cv EXCEPT !.sections = Put(cv.sections, "summary", <<"Results-driven engineer">>)]

\* the texts model.generate_content may answer to the content yaml_content
GeminiTexts(yaml_content) ==
    LET cv == yaml_content.value.map["cv"] IN
    { [ws |-> TRUE, wellformed |-> FALSE, value |-> [type |-> "none"]],
      [ws |-> TRUE, wellformed |-> TRUE,
       value |-> [type |-> "scalar", str |-> "Here is the enhanced resume"]],
      [ws |-> TRUE, wellformed |-> TRUE, value |-> [type |-> "mapping", map |-> cv]],
      [ws |-> TRUE, wellformed |-> TRUE,
       value |-> [type |-> "mapping", map |-> [cv |-> Reworded(cv)]]],
      yaml_content }

GeminiOutcomes(yaml_content) ==
    {[outcome |-> "raised"]}
    \cup {[outcome |-> "text", text |-> t] : t \in GeminiTexts(yaml_content)}

PlaceholderCv == [name |-> "John Doe"]

FullTemplate ==
    [cv |-> PlaceholderCv, locale |-> [language |-> "en"],
     design |-> [theme |-> "classic",
                 highlights |-> [bullet |-> "-", indent |-> "1cm"]]]

Templates ==
    { FullTemplate,
      [cv |-> PlaceholderCv, locale |-> [language |-> "en"],
       design |-> [theme |-> "classic", highlights |-> [indent |-> "1cm"]]],
      [cv |-> PlaceholderCv, locale |-> [language |-> "en"],
       design |-> [theme |-> "classic"]],
      [cv |-> PlaceholderCv, locale |-> [language |-> "en"]] }

BaseYamlFiles ==
    {[readable |-> FALSE]}
    \cup {[readable |-> TRUE, text |-> yaml_dump(t)] : t \in Templates}

(***************************************************************************)
(* Inputs of the converter                                                 *)
(***************************************************************************)
ItemsOf(section) ==
    CASE section = "education" ->
           { [institution |-> "MIT", area |-> "CS", studyType |-> "BSc",
              startDate |-> "2010", endDate |-> "2014", courses |-> <<"Logic">>],
             [institution |-> "MIT", area |-> "CS", studyType |-> "BSc",
              startDate |-> "2010"],
             [area |-> "CS", studyType |-> "BSc", startDate |-> "2010"] }
      [] section = "work" ->
           { [name |-> "Acme", position |-> "Engineer", location |-> "Paris",
              startDate |-> "2015", endDate |-> "2019", highlights |-> <<"Shipped">>],
             [name |-> "Acme", position |-> "Engineer", startDate |-> "2015"],
             [name |-> "Acme", startDate |-> "2015"] }
      [] section = "publications" ->
           { [name |-> "On Specs", authors |-> <<"J. Roe">>, releaseDate |-> "2020",
              doi |-> "10.1/x", url |-> "https://example.org/p"],
             [name |-> "On Specs", releaseDate |-> "2020"],
             [name |-> "On Specs"] }
      [] section = "projects" ->
           { [name |-> "Checker", startDate |-> "2021", description |-> "A tool"],
             [name |-> "Checker"],
             [description |-> "A tool"] }
      [] section = "skills" ->
           { [name |-> "Languages", keywords |-> <<"Python", "TLA+">>],
             [name |-> "Languages", keywords |-> <<>>],
             [name |-> "Languages"] }
      [] section = "awards" ->
           { [title |-> "Best Paper", awarder |-> "ACM"],
             [title |-> "Best Paper"] }

\* an item of the section with every key the converter reads
FullItem(section) ==
    CHOOSE item \in ItemsOf(section) :
        \A other \in ItemsOf(section) : DOMAIN other \subseteq DOMAIN item

SectionNames == {InputSections[n] : n \in 1..Len(InputSections)}

Summaries == {"absent", "", "Engineer with ten years of experience"}

WithSummary(basics, summary) ==
    IF summary = "absent" THEN basics ELSE Put(basics, "summary", summary)

\* every section absent, given as [] or given with one item; every summary
SectionInputs ==
    { [k \in {x \in SectionNames : choice[x] # "absent"} \cup {"basics"} |->
          IF k = "basics" THEN WithSummary(FullBasics, summary)
          ELSE IF choice[k] = "empty" THEN <<>>
          ELSE <<FullItem(k)>>]
      : choice \in [SectionNames -> {"absent", "empty", "given"}],
        summary \in Summaries }

\* one section with every list of items up to MaxItems
ItemInputs ==
    UNION { { [basics |-> FullBasics] @@ (section :> items)
              : items \in SeqsUpTo(ItemsOf(section), MaxItems) }
            : section \in SectionNames }

NetworkNames == {s_github, s_GitHub, s_linkedin, s_LinkedIn, s_LINKEDIN,
                 s_twitter, s_default, s_empty}

Profiles ==
    {[network |-> n, username |-> u] : n \in NetworkNames, u \in {"jdoe", ""}}
    \cup {[network |-> n] : n \in {s_LinkedIn, s_twitter}}
    \cup {[username |-> "jdoe"], EmptyDict}

\* every list of profiles up to MaxProfiles, and basics.profiles absent
ProfileInputs ==
    {[basics |-> Put(FullBasics, "profiles", profiles)]
        : profiles \in SeqsUpTo(Profiles, MaxProfiles)}
    \cup {[basics |-> FullBasics]}

\* basics and its required and optional fields
BasicsInputs ==
    { EmptyDict, [work |-> <<>>], [basics |-> EmptyDict] }
    \cup {[basics |-> Without(FullBasics, k)] : k \in {"name", "email", "phone"}}
    \cup {[basics |-> Put(FullBasics, "location", l)]
            : l \in {[city |-> "Paris", countryCode |-> "FR"], [city |-> "Paris"],
                     EmptyDict}}
    \cup {[basics |-> Put(FullBasics, "url", "https://example.org")]}

ConverterInputs == SectionInputs \cup ItemInputs \cup ProfileInputs \cup BasicsInputs

(***************************************************************************)
(* The converter run                                                       *)
(***************************************************************************)
Pending == [exc |-> "pending"]

Convert ==
    /\ conv = Pending
    /\ conv' = JSONResumeConverter(json_resume)
    /\ UNCHANGED <<json_resume, pipeVars>>

(***************************************************************************)
(* upload_json and generate_resume_pdf, one step per file or service call  *)
(***************************************************************************)
NoResponse == [status |-> 0]

Respond(r, resp) ==
    /\ response' = [response EXCEPT ![r] = resp]
    /\ pc' = [pc EXCEPT ![r] = "done"]

\* upload_json up to the saved input file (lines 284-303)
Upload(r) ==
    /\ pc[r] = "idle"
    /\ r \in clients
    /\ \E req \in traffic :
         /\ request' = [request EXCEPT ![r] = req]
         /\ IF ~ req.is_json
            THEN /\ Respond(r, [status |-> 400, error |-> "Request must be JSON"])
                 /\ UNCHANGED <<file_path, files>>
            ELSE IF req.json_data = EmptyDict \/ "basics" \notin DOMAIN req.json_data
            THEN /\ Respond(r, [status |-> 400, error |-> "Invalid JSON resume format"])
                 /\ UNCHANGED <<file_path, files>>
            ELSE \E u \in uuid4 :
                 /\ file_path' = [file_path EXCEPT ![r] = input_path(u)]
                 /\ files' = Write(files, input_path(u),
                                   [kind |-> "json", writer |-> r,
                                    data |-> req.json_data])
                 /\ pc' = [pc EXCEPT ![r] = "saved"]
                 /\ UNCHANGED response
    /\ UNCHANGED <<clients, traffic, gemini, enhanced_cv_yaml, handed, proc,
                   base_yaml_file, rendercv_installed, convVars>>

\* generate_resume_pdf: read the JSON, convert, enhance (lines 217-225)
Enhance(r) ==
    /\ pc[r] = "saved"
    /\ LET json_data == files[file_path[r]].data
           converter == JSONResumeConverter(json_data)
       IN  IF converter.exc # "none"
           THEN /\ Respond(r, [status |-> 500, error |-> converter.exc])
                /\ UNCHANGED <<gemini, enhanced_cv_yaml>>
           ELSE \E generated \in GeminiOutcomes(convert(converter.render_cv)) :
                LET enhanced == enhance_resume_with_gemini(
                                    convert(converter.render_cv), generated)
                IN  /\ gemini' = [gemini EXCEPT ![r] = generated]
                    /\ enhanced_cv_yaml' = [enhanced_cv_yaml EXCEPT ![r] = enhanced]
                    /\ IF enhanced.exc # "none"
                       THEN Respond(r, [status |-> 500, error |-> enhanced.exc])
                       ELSE /\ pc' = [pc EXCEPT ![r] = "enhanced"]
                            /\ UNCHANGED response
    /\ UNCHANGED <<clients, traffic, request, file_path, handed, proc, files,
                   base_yaml_file, rendercv_installed, convVars>>

\* generate_resume_pdf: load the template, merge, write the YAML (lines 228-242)
Merge(r) ==
    /\ pc[r] = "enhanced"
    /\ IF ~ base_yaml_file.readable
       THEN /\ Respond(r, [status |-> 500, error |-> "OSError"])
            /\ UNCHANGED files
       ELSE LET base_yaml == safe_load(base_yaml_file.text).map
                new_cv_data == safe_load(enhanced_cv_yaml[r].text)
            IN  IF CvRaises(new_cv_data) # "none"
                THEN /\ Respond(r, [status |-> 500, error |-> CvRaises(new_cv_data)])
                     /\ UNCHANGED files
                ELSE /\ files' = Write(files, yaml_path(file_path[r]),
                                       [kind |-> "yaml", writer |-> r,
                                        text |-> yaml_dump(merge(base_yaml, new_cv_data))])
                     /\ pc' = [pc EXCEPT ![r] = "merged"]
                     /\ UNCHANGED response
    /\ UNCHANGED <<clients, traffic, request, file_path, gemini, enhanced_cv_yaml,
                   handed, proc, base_yaml_file, rendercv_installed, convVars>>

\* replace_bullet_in_yaml(yaml_path) (line 244)
Bullet(r) ==
    /\ pc[r] = "merged"
    /\ LET path == yaml_path(file_path[r])
           old == files[path].text
           new == replace_bullet_in_yaml(old, NEW_BULLET)
       IN  IF new # old
           THEN files' = Write(files, path,
                               [kind |-> "yaml", writer |-> r, text |-> new])
           ELSE UNCHANGED files
    /\ pc' = [pc EXCEPT ![r] = "bulleted"]
    /\ UNCHANGED <<clients, traffic, request, file_path, gemini, enhanced_cv_yaml,
                   handed, proc, response, base_yaml_file, rendercv_installed,
                   convVars>>

\* what a started rendercv process can do
RenderOutcomes == {"nonzero exit", "exit 0 with pdf", "exit 0 without pdf"}

\* subprocess.run(['rendercv', ...], check=True) and the response (lines 246-316)
Render(r) ==
    /\ pc[r] = "bulleted"
    /\ IF ~ rendercv_installed
       THEN /\ proc' = [proc EXCEPT ![r] = "not found"]
            /\ Respond(r, [status |-> 500, error |-> "FileNotFoundError"])
            /\ UNCHANGED <<handed, files>>
       ELSE \E outcome \in RenderOutcomes :
            /\ proc' = [proc EXCEPT ![r] = outcome]
            /\ handed' = [handed EXCEPT ![r] =
                             [given |-> TRUE,
                              doc |-> safe_load(files[yaml_path(file_path[r])].text).map]]
            /\ files' = IF outcome = "exit 0 with pdf"
                        THEN Write(files, pdf_path(file_path[r]),
                                   [kind |-> "pdf", writer |-> r])
                        ELSE files
            /\ IF outcome = "nonzero exit"
               THEN Respond(r, [status |-> 500, error |-> "CalledProcessError"])
               ELSE Respond(r, [status |-> 200,
                                pdf_path |-> pdf_path(file_path[r]),
                                json_filename |-> file_path[r].stem])
    /\ UNCHANGED <<clients, traffic, request, file_path, gemini, enhanced_cv_yaml,
                   base_yaml_file, rendercv_installed, convVars>>

InitRequests ==
    /\ pc = [r \in Requests |-> "idle"]
    /\ request = [r \in Requests |-> [is_json |-> FALSE, json_data |-> EmptyDict]]
    /\ file_path = [r \in Requests |-> NoPath]
    /\ gemini = [r \in Requests |-> [outcome |-> "not called"]]
    /\ enhanced_cv_yaml = [r \in Requests |-> Pending]
    /\ handed = [r \in Requests |-> [given |-> FALSE]]
    /\ proc = [r \in Requests |-> "not started"]
    /\ response = [r \in Requests |-> NoResponse]
    /\ files = EmptyDict

\* one request of any kind, on a server with any template file
OneRequest ==
    /\ clients = {1}
    /\ traffic = HttpRequests
    /\ base_yaml_file \in BaseYamlFiles

\* every client uploads a resume at the same time
ConcurrentRequests ==
    /\ clients = Requests
    /\ traffic = {[is_json |-> TRUE, json_data |-> WorkResume]}
    /\ base_yaml_file = [readable |-> TRUE, text |-> yaml_dump(FullTemplate)]

Init ==
    /\ InitRequests
    /\ OneRequest \/ ConcurrentRequests
    /\ rendercv_installed \in BOOLEAN
    /\ json_resume = MinimalResume
    /\ conv = Pending

Next ==
    \E r \in Requests :
        \/ Upload(r)
        \/ Enhance(r)
        \/ Merge(r)
        \/ Bullet(r)
        \/ Render(r)

Spec == Init /\ [][Next]_vars

\* the converter applied to each input document
InitConv ==
    /\ InitRequests
    /\ clients = {}
    /\ traffic = {}
    /\ base_yaml_file \in {b \in BaseYamlFiles : ~ b.readable}
    /\ rendercv_installed = FALSE
    /\ json_resume \in ConverterInputs
    /\ conv = Pending

NextConv == Convert

SpecConv == InitConv /\ [][NextConv]_vars

(***************************************************************************)
(* Properties                                                              *)
(***************************************************************************)
\* the temporary files of request r: saved JSON, merged YAML, PDF
TempPaths(r) == {file_path[r], yaml_path(file_path[r]), pdf_path(file_path[r])}

InFlight(r) == pc[r] \notin {"idle", "done"}

\* the content generate_resume_pdf passed to the enhancer for request r
ContentOf(r) == convert(JSONResumeConverter(files[file_path[r]].data).render_cv)

\* C1: once the response of a run is returned, none of the temporary files
\* the run created (saved input JSON, merged YAML, PDF) is left on disk.
C1_NoTempFileAfterResponse ==
    \A r \in Requests :
        pc[r] = "done" => \A p \in TempPaths(r) : p \notin DOMAIN files

\* C2: enhance_resume_with_gemini never raises; it returns its input content
\* when the service call fails or the returned text is not well-formed YAML,
\* and the stripped service text exactly when that text parses.
C2_EnhancerFallsBack ==
    \A r \in Requests :
        gemini[r].outcome # "not called" =>
            /\ enhanced_cv_yaml[r].exc = "none"
            /\ IF gemini[r].outcome = "raised"
               THEN enhanced_cv_yaml[r].text = ContentOf(r)
               ELSE IF ~ gemini[r].text.wellformed
               THEN enhanced_cv_yaml[r].text = ContentOf(r)
               ELSE /\ enhanced_cv_yaml[r].text = Strip(gemini[r].text)
                    /\ enhanced_cv_yaml[r].text.wellformed

C2_Witness ==
    \E r \in Requests :
        /\ gemini[r].outcome = "text"
        /\ ~ gemini[r].text.wellformed
        /\ enhanced_cv_yaml[r] = [exc |-> "none", text |-> ContentOf(r)]

\* C3: whatever the service answers, a request whose document converts and
\* whose template loads reaches the render step: it ends in an error only
\* for a cause that fails the unenhanced content too (template unreadable,
\* renderer missing, renderer exit status).
C3_EnhancementNeverFailsRequest ==
    \A r \in Requests :
        (pc[r] = "done" /\ gemini[r].outcome # "not called" /\ response[r].status # 200)
            => response[r].error \in {"OSError", "FileNotFoundError", "CalledProcessError"}

\* C4: when the rendercv executable is missing, no merged YAML file is ever
\* written to disk.
C4_NoYamlWhenRendererMissing ==
    ~ rendercv_installed => \A p \in DOMAIN files : p.ext # ".yaml"

\* the output section key the claim pairs with each input key
C5_KeyOf == [education |-> "education", work |-> "experience",
             publications |-> "publications", projects |-> "projects",
             skills |-> "technologies", awards |-> "awards"]

\* C5: the keys of the output `sections` are exactly `summary` for a non-empty
\* basics.summary and the section key of every input list that is present and
\* non-empty; no section is emitted as an empty list.
C5_OmissionLaw ==
    conv.exc = "none" =>
        LET sections == conv.render_cv["cv"].sections
            basics == json_resume["basics"]
        IN  /\ DOMAIN sections =
                  {k \in {"summary"} : "summary" \in DOMAIN basics /\ basics["summary"] # ""}
                  \cup {C5_KeyOf[k] : k \in {x \in DOMAIN C5_KeyOf :
                            x \in DOMAIN json_resume /\ Len(json_resume[x]) > 0}}
            /\ \A k \in DOMAIN sections : Len(sections[k]) > 0

C5_Witness ==
    /\ conv.exc = "none"
    /\ {"education", "work", "skills"} \subseteq DOMAIN json_resume
    /\ "awards" \notin DOMAIN json_resume
    /\ json_resume["education"] = <<>>
    /\ json_resume["work"] # <<>>
    /\ DOMAIN conv.render_cv["cv"].sections \cap {"education", "experience", "awards"}
           = {"experience"}

\* the document has no basics, or basics lacks name, email or phone
LacksRequired(doc) ==
    \/ "basics" \notin DOMAIN doc
    \/ ~ ({"name", "email", "phone"} \subseteq DOMAIN doc["basics"])

\* C6: a JSON request whose document lacks basics, basics.name, basics.email
\* or basics.phone gets a client error (400) and rendercv is never started.
C6_MissingFieldIsClientError ==
    \A r \in Requests :
        (pc[r] = "done" /\ request[r].is_json /\ LacksRequired(request[r].json_data))
            => /\ response[r].status = 400
               /\ proc[r] = "not started"

\* C7: in the document rendercv is started on, cv is the cv of the (possibly
\* enhanced) content, every other top-level field is that of the base
\* template, except that design.highlights.bullet is the fixed bullet when
\* design.highlights exists; without that path the design is untouched.
C7_MergeFrame ==
    \A r \in Requests :
        handed[r].given =>
            LET base == safe_load(base_yaml_file.text).map
                doc == handed[r].doc
            IN  /\ DOMAIN doc = DOMAIN base \cup {"cv"}
                /\ doc["cv"] = safe_load(enhanced_cv_yaml[r].text).map["cv"]
                /\ \A k \in DOMAIN base \ {"cv", "design"} : doc[k] = base[k]
                /\ "design" \in DOMAIN base =>
                     /\ DOMAIN doc["design"] = DOMAIN base["design"]
                     /\ \A k \in DOMAIN base["design"] \ {"highlights"} :
                            doc["design"][k] = base["design"][k]
                     /\ "highlights" \in DOMAIN base["design"] =>
                          LET old == base["design"]["highlights"]
                              new == doc["design"]["highlights"]
                          IN  /\ DOMAIN new = DOMAIN old \cup {"bullet"}
                              /\ new["bullet"] = "U+2022"
                              /\ \A k \in DOMAIN old \ {"bullet"} : new[k] = old[k]

C7_Witness ==
    \E r \in Requests :
        /\ handed[r].given
        /\ gemini[r].outcome = "text"
        /\ enhanced_cv_yaml[r].text = Strip(gemini[r].text)
        /\ handed[r].doc["cv"] # ContentOf(r).value.map["cv"]
        /\ "design" \in DOMAIN handed[r].doc
        /\ "highlights" \in DOMAIN handed[r].doc["design"]
        /\ safe_load(base_yaml_file.text).map["design"]["highlights"]
               # handed[r].doc["design"]["highlights"]

\* C8: a request is answered with the PDF path only if the PDF file exists;
\* rendercv exiting with status 0 without producing the PDF is an error.
C8_SuccessOnlyWithPdf ==
    \A r \in Requests :
        (pc[r] = "done" /\ response[r].status = 200)
            => pdf_path(file_path[r]) \in DOMAIN files

\* C9: the temporary paths of two in-flight requests are disjoint, and every
\* file at a path of an in-flight request was written by that request.
C9_NoPathCollision ==
    \A r1 \in Requests : \A r2 \in Requests \ {r1} :
        (InFlight(r1) /\ InFlight(r2)) =>
            /\ TempPaths(r1) \cap TempPaths(r2) = {}
            /\ \A p \in TempPaths(r1) \cap DOMAIN files : files[p].writer = r1

C9_Witness ==
    \E r1 \in Requests : \E r2 \in Requests \ {r1} :
        /\ pc[r1] = "bulleted"
        /\ pc[r2] = "merged"
        /\ yaml_path(file_path[r1]) \in DOMAIN files
        /\ yaml_path(file_path[r2]) \in DOMAIN files

\* s is the lower-case name `lower` up to the case of its letters
C10_IsName(s, lower) ==
    /\ Len(s) = Len(lower)
    /\ \A i \in 1..Len(s) : s[i] = lower[i] \/ s[i] + 32 = lower[i]

\* C10: social_networks has one entry per profile, in order: LinkedIn for a
\* network that lower-cases to linkedin, GitHub for github and for every other
\* or missing network; username is the input username or ""; a document that
\* differs from a valid one only in its profiles converts without error.
C10_ProfileMapping ==
    /\ (conv # Pending /\ json_resume \in ProfileInputs) => conv.exc = "none"
    /\ conv.exc = "none" =>
         LET profiles == IF "profiles" \in DOMAIN json_resume["basics"]
                         THEN json_resume["basics"]["profiles"] ELSE <<>>
             social == conv.render_cv["cv"].social_networks
         IN  /\ Len(social) = Len(profiles)
             /\ \A i \in 1..Len(profiles) :
                  /\ social[i].network =
                        IF /\ "network" \in DOMAIN profiles[i]
                           /\ C10_IsName(profiles[i]["network"], s_linkedin)
                        THEN "LinkedIn" ELSE "GitHub"
                  /\ social[i].username =
                        IF "username" \in DOMAIN profiles[i]
                        THEN profiles[i]["username"] ELSE ""

C10_Witness ==
    /\ conv.exc = "none"
    /\ "profiles" \in DOMAIN json_resume["basics"]
    /\ json_resume["basics"]["profiles"] =
          <<[network |-> s_LinkedIn], [network |-> s_twitter, username |-> "jdoe"]>>
    /\ conv.render_cv["cv"].social_networks =
          <<[network |-> "LinkedIn", username |-> ""],
            [network |-> "GitHub", username |-> "jdoe"]>>

====
